---- MODULE Spec2Model ----
(***************************************************************************)
(* Rain Maker brand-perception pipeline.                                   *)
(*                                                                         *)
(*   collect.py : score_sentiment, score_tweets, compute_brand_score,      *)
(*                build_dashboard_json and main, over data.json            *)
(*   scorer.py  : score_engagement, detect_risk, score_mention,            *)
(*                score_existing_post, process_existing, merge_mentions    *)
(*                and main, over initial-pull.json                         *)
(*                                                                         *)
(* Abstractions.  A calendar date "YYYY-MM-DD" is a day number, the empty  *)
(* string is day 0.  A timestamp is <<>> (empty string) or <<day, hour>>.  *)
(* A text is the record of what the keyword scans find in it.  Alerts and  *)
(* top mentions keep the fields the merge reads or compares; the free-text *)
(* fields (text excerpt, reason, replyLikeRatio) and meta are left out.    *)
(* Floating point: the scores and the percentages are computed in binary64 *)
(* arithmetic, operation by operation as the source does, and rounded as   *)
(* Python round does (section "Python floats").                            *)
(***************************************************************************)
EXTENDS Integers, Sequences, FiniteSets, TLC

VARIABLES
  dataFile,       \* content of data.json
  today,          \* the UTC calendar date the clock shows
  last,           \* history: the last run of collect.py
  work,           \* history: the runs so far, each counted with its batch size
  cproc,          \* collect.py main: position and the tweets collected
  pull,           \* content of initial-pull.json
  rawDir,         \* the files of raw/, in name order, as lists of mentions
  rawNow,         \* raw/ holds the dump named after the second the clock shows
  sproc,          \* scorer.py main: position and in-memory data
  slast           \* history: the last merge_mentions call

vars == <<dataFile, today, last, work, cproc, pull, rawDir, rawNow, sproc, slast>>

collectVars == <<dataFile, today, last, work, cproc>>

scorerVars == <<pull, rawDir, rawNow, sproc, slast>>

(***************************************************************************)
(* Bounds of the model                                                     *)
(***************************************************************************)
MaxDay == 2
MaxBatch == 2
MaxWork == 3
MaxLongWork == 3
MaxLongBatch == 3
MaxPassWork == 2
MaxWarm == 91
MaxWide == 3
MaxSplit == 8
MaxPosts == 4
MaxFiles == 2
MaxMentions == 2

(***************************************************************************)
(* Program constants                                                       *)
(***************************************************************************)
NeutralDefault == 50
ScoreWindow == 90
AlertCap == 50
TopMentionsCap == 20
HighVisibilityReach == 50000

(***************************************************************************)
(* Generic helpers                                                         *)
(***************************************************************************)
Min(a, b) == IF a < b THEN a ELSE b

Max(a, b) == IF a > b THEN a ELSE b

\* seq[-n:]
Tail_n(seq, n) ==
  IF Len(seq) <= n THEN seq ELSE SubSeq(seq, Len(seq) - n + 1, Len(seq))

\* seq[:n]
Head_n(seq, n) ==
  IF Len(seq) <= n THEN seq ELSE SubSeq(seq, 1, n)

\* a function over 1..n as a sequence
AsSeq(f) == <<>> \o f

RECURSIVE SeqSum(_)
SeqSum(s) == IF s = <<>> THEN 0 ELSE Head(s) + SeqSum(Tail(s))

\* [x for x in seq if x.date != d]
SelectSeqBy(seq, d) ==
  LET Keep(x) == x.date # d
  IN  SelectSeq(seq, Keep)

\* One step of a stable descending sort: x goes after every element whose
\* key is greater than or equal to its own (list.sort(reverse=True) keeps
\* the original order of equal keys).
RECURSIVE InsertDesc(_, _)
InsertDesc(sorted, x) ==
  IF sorted = <<>> THEN <<x>>
  ELSE IF Head(sorted).key >= x.key
       THEN <<Head(sorted)>> \o InsertDesc(Tail(sorted), x)
       ELSE <<x>> \o sorted

RECURSIVE SortDescFrom(_, _)
SortDescFrom(acc, rest) ==
  IF rest = <<>> THEN acc
  ELSE SortDescFrom(InsertDesc(acc, Head(rest)), Tail(rest))

\* sorted(items, key=..., reverse=True) over records [key, item]
StableSortDesc(pairs) == SortDescFrom(<<>>, pairs)

RECURSIVE SeqsUpTo(_, _)
\* the sequences of at most n elements of S
SeqsUpTo(S, n) ==
  IF n = 0 THEN {<<>>}
  ELSE LET shorter == SeqsUpTo(S, n - 1)
       IN  shorter \cup
           { Append(b, t) : <<b, t>> \in {bt \in shorter \X S : Len(bt[1]) = n - 1} }

(***************************************************************************)
(* Python floats                                                           *)
(*                                                                         *)
(* A Python float is an IEEE 754 binary64 number and every operation on    *)
(* floats gives the float nearest to the exact result, ties to the even    *)
(* mantissa.  All floats of the program are finite, not negative and       *)
(* multiples of 2^-FracBits; the float x is held here as the natural       *)
(* number x * 2^FracBits.  A natural number is a sequence of limbs in base *)
(* Radix, least significant first, without leading zero limbs.             *)
(***************************************************************************)
LimbBits == 15
Radix == 32768
FracLimbs == 7
FracBits == FracLimbs * LimbBits
MantBits == 53

\* 2^k for k in 0..LimbBits
Pow2i(k) ==
  <<1, 2, 4, 8, 16, 32, 64, 128, 256, 512, 1024, 2048, 4096, 8192, 16384,
    32768>>[k + 1]

\* limb i of a, 0 beyond its length
Limb(a, i) == IF i \in 1..Len(a) THEN a[i] ELSE 0

\* a without its leading zero limbs
Norm(a) ==
  IF a = <<>> THEN <<>>
  ELSE LET used == {i \in 1..Len(a) : a[i] # 0}
       IN  IF used = {} THEN <<>>
           ELSE SubSeq(a, 1, CHOOSE i \in used : \A j \in used : j <= i)

\* the limbs of the integer n, 0 <= n < 2^31
Big(n) == Norm(<<n % Radix, (n \div Radix) % Radix, n \div (Radix * Radix)>>)

\* the integer of the limbs a, below 2^31
Small(a) == Limb(a, 1) + Radix * Limb(a, 2) + Radix * Radix * Limb(a, 3)

\* a + b: the sums of the limbs, and a carry of 1 into limb i when a limb
\* below it overflows and the limbs between are all Radix - 1
BigAdd(a, b) ==
  IF b = <<>> THEN a ELSE IF a = <<>> THEN b ELSE
  LET n == (IF Len(a) > Len(b) THEN Len(a) ELSE Len(b)) + 1
      s == <<>> \o [i \in 1..n |-> Limb(a, i) + Limb(b, i)]
      carry == [i \in 1..n |->
                  IF \E j \in 1..(i - 1) :
                       s[j] >= Radix /\ \A k \in (j + 1)..(i - 1) : s[k] = Radix - 1
                  THEN 1 ELSE 0]
  IN  Norm(<<>> \o [i \in 1..n |-> (s[i] + carry[i]) % Radix])

\* a - b, for a >= b: the differences of the limbs, and a borrow of 1 from
\* limb i when a limb below it is negative and the limbs between are all 0
BigSub(a, b) ==
  IF b = <<>> THEN a ELSE
  LET n == Len(a)
      d == <<>> \o [i \in 1..n |-> Limb(a, i) - Limb(b, i)]
      borrow == [i \in 1..n |->
                   IF \E j \in 1..(i - 1) :
                        d[j] < 0 /\ \A k \in (j + 1)..(i - 1) : d[k] = 0
                   THEN 1 ELSE 0]
  IN  Norm(<<>> \o [i \in 1..n |-> (d[i] - borrow[i]) % Radix])

\* 1, 0 or -1 as a is above, equal to or below b
BigCmp(a, b) ==
  IF a = b THEN 0 ELSE
  LET n == IF Len(a) > Len(b) THEN Len(a) ELSE Len(b)
      differ == {i \in 1..n : Limb(a, i) # Limb(b, i)}
  IN  IF differ = {} THEN 0
      ELSE LET top == CHOOSE i \in differ : \A j \in differ : j <= i
           IN  IF Limb(a, top) > Limb(b, top) THEN 1 ELSE -1

Zeros(w) == [i \in 1..w |-> 0]

\* a * Radix^w
ShiftLimbs(a, w) == IF a = <<>> THEN <<>> ELSE Zeros(w) \o a

\* a number given by columns t[i] < Radix * Radix, column i weighing
\* Radix^(i-1): the low parts plus the high parts one limb up
FromColumns(t) ==
  IF t = <<>> THEN <<>> ELSE
  BigAdd(Norm(<<>> \o [i \in 1..Len(t) |-> t[i] % Radix]),
         Norm(<<0>> \o [i \in 1..Len(t) |-> t[i] \div Radix]))

\* a * k, for 0 <= k < Radix
BigMulSmall(a, k) ==
  IF a = <<>> \/ k = 0 THEN <<>> ELSE FromColumns(<<>> \o [i \in 1..Len(a) |-> a[i] * k])

RECURSIVE SumTo(_, _)
\* f[1] + ... + f[n]
SumTo(f, n) == IF n = 0 THEN 0 ELSE f[n] + SumTo(f, n - 1)

\* the number of zero limbs at the low end of a # <<>>
LowZeros(a) == (CHOOSE i \in 1..Len(a) : a[i] # 0 /\ \A j \in 1..(i - 1) : a[j] = 0) - 1

\* a * b for a and b without zero limbs at the low end: column j collects
\* the low halves of the products a[i] * b[j+1-i] and the high halves of
\* the products a[i] * b[j-i]
MulColumns(a, b) ==
  LET Prod(i, j) == IF j \in 1..Len(b) THEN a[i] * b[j] ELSE 0
  IN  FromColumns(<<>> \o [j \in 1..(Len(a) + Len(b)) |->
        SumTo([i \in 1..Len(a) |->
                 (Prod(i, j + 1 - i) % Radix) + (Prod(i, j - i) \div Radix)],
              Len(a))])

\* a * b
BigMul(a, b) ==
  IF a = <<>> \/ b = <<>> THEN <<>>
  ELSE ShiftLimbs(MulColumns(SubSeq(a, LowZeros(a) + 1, Len(a)),
                             SubSeq(b, LowZeros(b) + 1, Len(b))),
                  LowZeros(a) + LowZeros(b))

\* the number of bits of the limb x
BitLenLimb(x) == CHOOSE n \in 0..LimbBits : x < Pow2i(n) /\ (n = 0 \/ Pow2i(n - 1) <= x)

\* the number of bits of a
BitLen(a) ==
  IF a = <<>> THEN 0 ELSE LimbBits * (Len(a) - 1) + BitLenLimb(a[Len(a)])

\* 2^k
Pow2(k) == Zeros(k \div LimbBits) \o <<Pow2i(k % LimbBits)>>

\* bit k of a, bit 0 being the lowest
Bit(a, k) == (Limb(a, k \div LimbBits + 1) \div Pow2i(k % LimbBits)) % 2

\* whether a bit of a below bit k is set
LowBits(a, k) ==
  \/ \E i \in 1..Min(k \div LimbBits, Len(a)) : a[i] # 0
  \/ Limb(a, k \div LimbBits + 1) % Pow2i(k % LimbBits) # 0

\* a with its bits below bit k cleared
ClearLow(a, k) ==
  <<>> \o [i \in 1..Len(a) |->
            IF i <= k \div LimbBits THEN 0
            ELSE IF i = k \div LimbBits + 1 THEN a[i] - (a[i] % Pow2i(k % LimbBits))
            ELSE a[i]]

\* floor(a / 2^k)
DivPow2(a, k) ==
  IF a = <<>> THEN <<>> ELSE
  LET w == k \div LimbBits
      p == Pow2i(k % LimbBits)
      hi == Pow2i(LimbBits - (k % LimbBits))
      t == IF Len(a) <= w THEN <<>> ELSE SubSeq(a, w + 1, Len(a))
  IN  Norm(<<>> \o [i \in 1..Len(t) |->
             (t[i] \div p) + (IF i < Len(t) THEN (t[i + 1] % p) * hi ELSE 0)])

\* The float nearest to an exact result: a, or a number strictly between a
\* and a + 1 when sticky, rounded to MantBits significant bits, ties to
\* even: the bits below the mantissa are cleared, and one unit of the
\* mantissa is added when they were more than half a unit, or half a unit
\* with an odd mantissa.  With sticky, a has more than MantBits bits.
RoundMant(a, sticky) ==
  LET len == BitLen(a)
  IN  IF len <= MantBits THEN a
      ELSE LET s == len - MantBits
               down == ClearLow(a, s)
               up == /\ Bit(a, s - 1) = 1
                     /\ (sticky \/ LowBits(a, s - 1) \/ Bit(a, s) = 1)
           IN  IF up THEN BigAdd(down, Pow2(s)) ELSE down

\* float(n) of an integer 0 <= n < 2^31
FInt(n) == ShiftLimbs(Big(n), FracLimbs)

\* the next LimbBits bits of the binary expansion of r / b, and the
\* remainder, five bits at a time; 0 <= r < b < 2^26
DivLimb(r, b) ==
  LET q1 == (r * 32) \div b
      r1 == (r * 32) % b
      q2 == (r1 * 32) \div b
      r2 == (r1 * 32) % b
      q3 == (r2 * 32) \div b
      r3 == (r2 * 32) % b
  IN  [q |-> (q1 * 32 + q2) * 32 + q3, r |-> r3]

RECURSIVE FracDigits(_, _, _)
\* the next k limbs of the expansion of r / b, and the remainder
FracDigits(r, b, k) ==
  IF k = 0 THEN [limbs |-> <<>>, r |-> r]
  ELSE LET d == DivLimb(r, b)
           rest == FracDigits(d.r, b, k - 1)
       IN  [limbs |-> Append(rest.limbs, d.q), r |-> rest.r]

\* a / b of two integers, 0 <= a, 0 < b < 2^26: the float nearest to the
\* quotient, which is the quotient itself when b divides a.  Also the value
\* of a decimal literal, 0.4 being FDiv(4, 10).
FDiv(a, b) ==
  IF a = 0 THEN <<>> ELSE
  IF a % b = 0 THEN FInt(a \div b) ELSE
  LET frac == FracDigits(a % b, b, FracLimbs)
  IN  RoundMant(Norm(frac.limbs \o Big(a \div b)), frac.r # 0)

\* x * y
FMul(x, y) ==
  IF x = <<>> \/ y = <<>> THEN <<>> ELSE DivPow2(RoundMant(BigMul(x, y), FALSE), FracBits)

\* x + y
FAdd(x, y) ==
  IF y = <<>> THEN x ELSE IF x = <<>> THEN y ELSE RoundMant(BigAdd(x, y), FALSE)

\* x - y, for x >= y
FSub(x, y) ==
  IF y = <<>> THEN x ELSE RoundMant(BigSub(x, y), FALSE)

\* the float literals of the program
Weight04 == FDiv(4, 10)
Weight06 == FDiv(6, 10)
ViewsWeight == FDiv(1, 1000)
SentimentThreshold == FDiv(2, 10)

\* round(x * k) for an integer 0 < k < Radix, the product being exact: the
\* nearest integer, ties to even, which is x * k when x is an integer.
\* k = 1 is round(x); k = 100 is round(x, 2) in hundredths.
FRound(x, k) ==
  IF x = <<>> THEN 0 ELSE
  IF Len(x) > FracLimbs /\ SubSeq(x, 1, FracLimbs) = Zeros(FracLimbs)
  THEN Small(SubSeq(x, FracLimbs + 1, Len(x))) * k ELSE
  LET a == BigMulSmall(x, k)
      n == Small(DivPow2(a, FracBits))
      up == /\ Bit(a, FracBits - 1) = 1
            /\ (LowBits(a, FracBits - 1) \/ n % 2 = 1)
  IN  IF up THEN n + 1 ELSE n

(***************************************************************************)
(* collect.py : inputs                                                     *)
(***************************************************************************)
\* A text, as the keyword scans of score_sentiment and of the alert
\* detection see it: how many distinct POSITIVE_WORDS and NEGATIVE_WORDS it
\* contains, and whether it contains one of the conspiracy keywords.
Text(p, n, c) == [pos |-> p, neg |-> n, consp |-> c]

Metrics(rt, lk, rp, qt) ==
  [retweet_count |-> rt, like_count |-> lk, reply_count |-> rp, quote_count |-> qt]

\* The user lookup built by collect_all from the "includes" of the API
\* results: author ids a1 and a2 are known, every other id is not.
users_map ==
  [a1 |-> [username |-> "alice", followers_count |-> 100],
   a2 |-> [username |-> "bob", followers_count |-> 50001]]

Tweet(i, a, c, tx, m) ==
  [id |-> i, author_id |-> a, created_at |-> c, text |-> tx, public_metrics |-> m]

PoolIds == {"t1", "t2", "t3", "t4", "t5"}

\* t1: alice, positive, reply:like ratio 0.2.  t2: alice, negative, with a
\* conspiracy keyword.  t3: alice, no timestamp, conspiracy keyword.
\* t4: bob, negative, reach above 50000, written the day before.
\* t5: an author the lookup does not know, neutral, reach 0.
TweetById(id, d) ==
  CASE id = "t1" -> Tweet("t1", "a1", <<d, 9>>, Text(2, 0, FALSE), Metrics(0, 10, 2, 0))
    [] id = "t2" -> Tweet("t2", "a1", <<d, 17>>, Text(0, 1, TRUE), Metrics(1, 0, 0, 0))
    [] id = "t3" -> Tweet("t3", "a1", <<>>, Text(0, 0, TRUE), Metrics(0, 0, 0, 0))
    [] id = "t4" -> Tweet("t4", "a2", <<Max(d - 1, 1), 12>>, Text(0, 2, FALSE), Metrics(0, 0, 3, 0))
    [] id = "t5" -> Tweet("t5", "a3", <<d, 3>>, Text(1, 1, FALSE), Metrics(0, 0, 0, 0))

\* The tweets a search can return on day d.
Pool(d) == { TweetById(id, d) : id \in PoolIds }

RECURSIVE SeqsNoRep(_, _)
\* the sequences of at most n distinct elements of S
SeqsNoRep(S, n) ==
  IF n = 0 THEN {<<>>}
  ELSE LET shorter == SeqsNoRep(S, n - 1)
       IN  shorter \cup
           { Append(bt[1], bt[2]) : bt \in
               { bt \in shorter \X S :
                   /\ Len(bt[1]) = n - 1
                   /\ \A i \in 1..Len(bt[1]) : bt[1][i] # bt[2] } }

BatchIds == SeqsNoRep(PoolIds, MaxBatch)

\* collect_all returns tweets deduplicated by id: the batches of at most
\* MaxBatch tweets of the day's pool, in every order.
Batches(d) == { AsSeq([i \in 1..Len(b) |-> TweetById(b[i], d)]) : b \in BatchIds }

(***************************************************************************)
(* collect.py : scoring                                                    *)
(***************************************************************************)
\* score_sentiment: label and confidence (in hundredths).
score_sentiment(text) ==
  IF text.pos > text.neg
  THEN [label |-> "positive", confidence |-> Min(50 + text.pos * 15, 95)]
  ELSE IF text.neg > text.pos
  THEN [label |-> "negative", confidence |-> Min(50 + text.neg * 15, 95)]
  ELSE [label |-> "neutral", confidence |-> 50]

\* users_map.get(author_id, {})
LookupUser(author_id) ==
  IF author_id \in DOMAIN users_map
  THEN users_map[author_id]
  ELSE [username |-> "unknown", followers_count |-> 0]

score_tweet(t) ==
  LET s == score_sentiment(t.text)
      user == LookupUser(t.author_id)
      m == t.public_metrics
  IN  [id |-> t.id,
       text |-> t.text,
       username |-> user.username,
       author_id |-> t.author_id,
       created_at |-> t.created_at,
       sentiment |-> s.label,
       confidence |-> s.confidence,
       reach |-> m.retweet_count * 10 + m.like_count * 2 + m.reply_count * 5
                 + m.quote_count * 8 + user.followers_count,
       metrics |-> m,
       follower_count |-> user.followers_count]

score_tweets(tweets) == AsSeq([i \in 1..Len(tweets) |-> score_tweet(tweets[i])])

CountSentiment(scored, label) ==
  Cardinality({i \in 1..Len(scored) : scored[i].sentiment = label})

ReachOf(scored, label) ==
  SeqSum([i \in 1..Len(scored) |->
            IF scored[i].sentiment = label THEN scored[i].reach ELSE 0])

TotalReach(scored) == SeqSum([i \in 1..Len(scored) |-> scored[i].reach])

\* sum(...) or 1
TotalReachOr1(scored) ==
  IF TotalReach(scored) = 0 THEN 1 ELSE TotalReach(scored)

\* x * 50 + 50 for x = a / b, with -b <= a <= b; the float -y is the
\* mirror image of y, so a negative quotient gives 50 - |x| * 50.
RatioScore(a, b) ==
  LET d == FMul(FDiv(IF a < 0 THEN -a ELSE a, b), FInt(50))
  IN  IF a >= 0 THEN FAdd(d, FInt(50)) ELSE FSub(FInt(50), d)

\* count_score = (pos - neg) / total * 50 + 50
count_score(scored) ==
  RatioScore(CountSentiment(scored, "positive") - CountSentiment(scored, "negative"),
             Len(scored))

\* reach_score = (pos_reach - neg_reach) / total_reach * 50 + 50
reach_score(scored) ==
  RatioScore(ReachOf(scored, "positive") - ReachOf(scored, "negative"),
             TotalReachOr1(scored))

\* Mutant of BlendRounded: the two weights are exchanged.
BlendRounded_Swapped(scored) ==
  FRound(FAdd(FMul(count_score(scored), Weight06),
              FMul(reach_score(scored), Weight04)), 1)

\* round(count_score * 0.4 + reach_score * 0.6)
BlendRounded(scored) ==
  FRound(FAdd(FMul(count_score(scored), Weight04),
              FMul(reach_score(scored), Weight06)), 1)

\* What the score reads of a batch: the sentiment and the reach of each
\* tweet.
SentimentReach(scored) ==
  AsSeq([i \in 1..Len(scored) |->
           [sentiment |-> scored[i].sentiment, reach |-> scored[i].reach]])

\* The rounded blends of the batches of the pool, computed once.
PoolBlends ==
  [k \in { SentimentReach(score_tweets(b)) : b \in Batches(1) } \ {<<>>} |->
     BlendRounded(k)] @@ <<>>

compute_brand_score(scored) ==
  IF scored = <<>> THEN NeutralDefault
  ELSE LET k == SentimentReach(scored)
       IN  Max(0, Min(100, IF k \in DOMAIN PoolBlends THEN PoolBlends[k]
                           ELSE BlendRounded(scored)))

(***************************************************************************)
(* collect.py : build_dashboard_json                                       *)
(***************************************************************************)
NoDate == 0

\* created_at[:10]: the date part of a timestamp, "" for the empty string
Prefix10(created_at) == IF created_at = <<>> THEN NoDate ELSE created_at[1]

\* t["created_at"][:10] if t["created_at"] else today
DateOrToday(created_at, d) ==
  IF created_at # <<>> THEN Prefix10(created_at) ELSE d

\* data.json.  kind: "absent" (no file), "unparseable" (json.loads raises),
\* "notobject" (valid JSON that is not an object), "badscores" (an object
\* whose "scores" is a number), "object".  A pass-through field that the
\* object lacks is "missing"; the empty object {} is "empty".
File(k, sc, ra, ap, ag, tm) ==
  [kind |-> k, scores |-> sc, riskAlerts |-> ra, accountProfiles |-> ap,
   aggregate |-> ag, topMentions |-> tm]

AbsentFile == File("absent", <<>>, <<>>, "missing", "missing", <<>>)

\* existing = {"scores": [], "topMentions": []}, replaced by the parsed
\* file when the file exists and parses
LoadExisting(file) ==
  IF file.kind \in {"absent", "unparseable"}
  THEN File("object", <<>>, <<>>, "missing", "missing", <<>>)
  ELSE file

\* existing.get(key, {}) of a pass-through field
GetOrEmpty(v) == IF v = "missing" THEN "empty" ELSE v

\* existing.get(...) raises on a value that is no object; the comprehension
\* over "scores" raises on a number
LoadRaises(file) == file.kind \in {"notobject", "badscores"}

\* Mutant of Percent: the percentage is truncated, not rounded.
Percent_Truncated(n, total) == IF total = 0 THEN 0 ELSE (n * 100) \div total

\* round(n / total * 100)
RoundedPercent(n, total) == FRound(FMul(FDiv(n, total), FInt(100)), 1)

\* The percentages of the batches of at most MaxBatch tweets, computed once:
\* row total holds those of 0, 1, ..., total tweets out of total.
PercentRows ==
  AsSeq([total \in 1..MaxBatch |->
           AsSeq([i \in 1..(total + 1) |-> RoundedPercent(i - 1, total)])])

\* round(n / total * 100) if total else 0
Percent(n, total) ==
  IF total = 0 THEN 0
  ELSE IF total <= MaxBatch /\ n \in 0..total THEN PercentRows[total][n + 1]
  ELSE RoundedPercent(n, total)

ScoreEntry(scored, brand_score, d) ==
  LET total == Len(scored)
      pos == CountSentiment(scored, "positive")
      neg == CountSentiment(scored, "negative")
      neu == total - pos - neg
  IN  [date |-> d,
       score |-> brand_score,
       positive |-> Percent(pos, total),
       negative |-> Percent(neg, total),
       neutral |-> Percent(neu, total),
       totalTweets |-> total]

\* Mutant of UpdateScores: the entry is appended without removing today's.
UpdateScores_NoReplace(existing_scores, entry) == Append(existing_scores, entry)

\* scores = [s for s in existing.get("scores", []) if s.get("date") != today]
\* scores.append({...})
UpdateScores(existing_scores, entry) ==
  Append(SelectSeqBy(existing_scores, entry.date), entry)

\* ratio = replies / likes if likes > 0 else 0, compared with 0.15 and 0.25
RatioAbove15(m) == m.like_count > 0 /\ m.reply_count * 100 > 15 * m.like_count

RatioAbove25(m) == m.like_count > 0 /\ m.reply_count * 100 > 25 * m.like_count

IsRisk(t) ==
  \/ RatioAbove15(t.metrics)
  \/ (t.sentiment = "negative" /\ t.reach > HighVisibilityReach)
  \/ t.text.consp

\* The post key is the string "<username> — <created_at[:10]>".
PostKey(t) == <<t.username, Prefix10(t.created_at)>>

MakeAlert(t, d) ==
  [severity |-> IF RatioAbove25(t.metrics) \/ t.text.consp THEN "HIGH" ELSE "MEDIUM",
   post |-> PostKey(t),
   metrics |-> t.metrics,
   date |-> DateOrToday(t.created_at, d)]

HasPost(risk_alerts, post) ==
  \E i \in 1..Len(risk_alerts) : risk_alerts[i].post = post

\* if not any(r.get("post") == alert["post"] for r in risk_alerts): append
AppendIfNew(risk_alerts, alert) ==
  IF HasPost(risk_alerts, alert.post) THEN risk_alerts
  ELSE Append(risk_alerts, alert)

\* the loop over scored_tweets, from tweet i on
RECURSIVE DetectAlerts(_, _, _, _)
DetectAlerts(risk_alerts, scored, i, d) ==
  IF i > Len(scored) THEN risk_alerts
  ELSE DetectAlerts(
         IF IsRisk(scored[i])
         THEN AppendIfNew(risk_alerts, MakeAlert(scored[i], d))
         ELSE risk_alerts,
         scored, i + 1, d)

\* sorted(scored_tweets, key=reach, reverse=True)[:20], in dashboard shape
TopMentions(scored, d) ==
  LET top == Head_n(StableSortDesc([i \in 1..Len(scored) |->
                      [key |-> scored[i].reach, item |-> scored[i]]]),
                    TopMentionsCap)
  IN  AsSeq([i \in 1..Len(top) |->
         [user |-> top[i].item.username,
          sentiment |-> top[i].item.sentiment,
          reach |-> top[i].item.reach,
          date |-> DateOrToday(top[i].item.created_at, d)]])

\* Mutant of KeepScores: the first 90 entries are kept.
KeepScores_Oldest(scores) == Head_n(scores, ScoreWindow)

\* scores[-90:]
KeepScores(scores) == Tail_n(scores, ScoreWindow)

\* Mutant of KeepAlerts: the first 50 alerts are kept.
KeepAlerts_Oldest(risk_alerts) == Head_n(risk_alerts, AlertCap)

\* risk_alerts[-50:]
KeepAlerts(risk_alerts) == Tail_n(risk_alerts, AlertCap)

\* Mutant of PassThrough: the field is written as the empty object.
PassThrough_Reset(v) == "empty"

\* existing.get("accountProfiles", {}), existing.get("aggregate", {})
PassThrough(v) == GetOrEmpty(v)

\* The result of build_dashboard_json on the file as it is at day d: the
\* call raises (aborted) or returns the dashboard.
build_dashboard_json(scored, brand_score, file, d) ==
  IF LoadRaises(file)
  THEN [aborted |-> TRUE, dashboard |-> file]
  ELSE LET existing == LoadExisting(file)
       IN  [aborted |-> FALSE,
            dashboard |->
              File("object",
                   KeepScores(UpdateScores(existing.scores,
                                           ScoreEntry(scored, brand_score, d))),
                   KeepAlerts(DetectAlerts(existing.riskAlerts, scored, 1, d)),
                   PassThrough(existing.accountProfiles),
                   PassThrough(existing.aggregate),
                   TopMentions(scored, d))]

(***************************************************************************)
(* collect.py : main                                                       *)
(***************************************************************************)
LastRun(op, aborted, batch, brand_score, loaded, d) ==
  [op |-> op, aborted |-> aborted, batch |-> batch, brand_score |-> brand_score,
   loaded |-> loaded, day |-> d]

NoRun == LastRun("none", FALSE, <<>>, 0, AbsentFile, 0)

\* dashboard = build_dashboard_json(scored, brand_score)
\* DATA_FILE.write_text(json.dumps(dashboard))
\* An exception leaves the file as it was.
build_and_write(op, scored, brand_score) ==
  LET out == build_dashboard_json(scored, brand_score, dataFile, today)
  IN  /\ dataFile' = IF out.aborted THEN dataFile ELSE out.dashboard
      /\ last' = LastRun(op, out.aborted, scored, brand_score, dataFile, today)

\* raw/raw_<ts>.json as main writes it, {"tweets": ..., "users": ...}, seen
\* as scorer.py reads a raw file: data.get("mentions", []) is the empty list.
RawDump == <<>>

\* ts = datetime.now().strftime("%Y%m%d_%H%M%S")
\* raw_file = RAW_DIR / f"raw_{ts}.json"; raw_file.write_text(...)
\* The name is the local time to the second.  A run within the second of an
\* earlier dump that is still there writes over that file, which reads as
\* before; otherwise the file is a new one, and its name, of a later second,
\* sorts after the names of the files there.
write_raw ==
  /\ rawDir' = IF rawNow THEN rawDir ELSE Append(rawDir, RawDump)
  /\ rawNow' = TRUE

\* What a run adds to the work counter: its batch size, at least 1.
Cost(batch) == Max(1, Len(batch))

IdleCollect == [pc |-> "idle", tweets |-> <<>>]

\* Mutant of main: no early return on an empty batch.
main_NoEarlyReturn(tweets, budget) ==
  /\ cproc.pc = "idle"
  /\ work + Cost(tweets) <= budget
  /\ work' = work + Cost(tweets)
  /\ write_raw
  /\ cproc' = [pc |-> "dumped", tweets |-> tweets]
  /\ UNCHANGED <<dataFile, last, today, pull, sproc, slast>>

\* main up to the raw dump: the tweets are collected; without tweets the run
\* ends, otherwise the dump is written under the local time of that moment.
main(tweets, budget) ==
  /\ cproc.pc = "idle"
  /\ work + Cost(tweets) <= budget
  /\ work' = work + Cost(tweets)
  /\ IF tweets = <<>>
     THEN /\ last' = LastRun("skip", FALSE, <<>>, 0, dataFile, today)
          /\ UNCHANGED <<dataFile, rawDir, rawNow, cproc>>
     ELSE /\ write_raw
          /\ cproc' = [pc |-> "dumped", tweets |-> tweets]
          /\ UNCHANGED <<dataFile, last>>
  /\ UNCHANGED <<today, pull, sproc, slast>>

\* main from the dump on: the tweets are scored and the dashboard is built,
\* under the date the clock shows by then, and written.
main_build ==
  /\ cproc.pc = "dumped"
  /\ LET scored == score_tweets(cproc.tweets)
     IN  build_and_write("main", scored, compute_brand_score(scored))
  /\ cproc' = IdleCollect
  /\ UNCHANGED <<today, work, scorerVars>>

\* The calendar date advances.
Tick ==
  /\ today' = today + 1
  /\ rawNow' = FALSE
  /\ UNCHANGED <<dataFile, last, work, cproc, pull, rawDir, sproc, slast>>

\* The clock moves on to the next second.
Second ==
  /\ rawNow
  /\ rawNow' = FALSE
  /\ UNCHANGED <<dataFile, today, last, work, cproc, pull, rawDir, sproc, slast>>

(***************************************************************************)
(* scorer.py : inputs                                                      *)
(***************************************************************************)
\* A text, as the keyword scans of scorer.py see it: how many of the
\* positive keywords it contains, and the negative keywords it contains, in
\* the order of RISK_KEYWORDS["negative"].
SText(p, risks) == [pos |-> p, risks |-> risks]

Mention(a, ts, tx, lk, rt, rp, fo, u) ==
  [author |-> a, timestamp |-> ts, text |-> tx, likes |-> lk, retweets |-> rt,
   replies |-> rp, author_followers |-> fo, url |-> u]

MentionPool ==
  { Mention("carol", <<5, 10>>, SText(0, <<"fraud">>), 2, 1, 0, 20000, "u1"),
    Mention("dave", <<>>, SText(1, <<>>), 5, 0, 0, 10, "u2"),
    Mention("erin", <<6, 8>>, SText(1, <<"avoid">>), 0, 0, 2, 150000, "u3") }

\* The posts of an initial-pull.json written by hand, before any scoring.
\* sentiment "" and has_flag FALSE stand for a post without that key.
Post(acc, d, c, m, sent, eng, hf, rf, rk, tp, src, u) ==
  [account |-> acc, date |-> d, content |-> c, metrics |-> m, sentiment |-> sent,
   engagement_score |-> eng, has_flag |-> hf, risk_flag |-> rf,
   risk_keywords |-> rk, topics |-> tp, source |-> src, url |-> u]

PostMetrics(rp, rs, lk, vw) ==
  [replies |-> rp, reposts |-> rs, likes |-> lk, views |-> vw]

HandPosts ==
  { Post("rainmaker", 3, SText(0, <<"scam">>), PostMetrics(0, 0, 5, 0),
         "negative", 0, TRUE, FALSE, <<>>, <<"pricing">>, "pull", "p1"),
    Post("doricko", 4, SText(2, <<>>), PostMetrics(1, 0, 1, 2500),
         "", 0, FALSE, FALSE, <<>>, <<>>, "pull", "p2"),
    Post("rainmaker", 4, SText(0, <<"lawsuit", "sued">>), PostMetrics(0, 1, 0, 0),
         "", 0, FALSE, FALSE, <<>>, <<"legal">>, "pull", "p3") }

RawFiles == SeqsUpTo(MentionPool, MaxMentions)

InitialPulls ==
  {[exists |-> FALSE, recentPosts |-> <<>>, riskSignals |-> {}]} \cup
  {[exists |-> TRUE, recentPosts |-> ps, riskSignals |-> {}] :
     ps \in SeqsNoRep(HandPosts, 2)}

(***************************************************************************)
(* scorer.py : scoring                                                     *)
(***************************************************************************)
\* score_sentiment of scorer.py, with the round(score, 3) of its callers:
\* the label, and the score in thousandths.  The float score is
\* (pos - neg) / total; a negative score is the mirror image of the
\* positive one, so score < -0.2 is |score| > 0.2.
scorer_score_sentiment(text) ==
  LET pos == text.pos
      neg == Len(text.risks)
      total == pos + neg
  IN  IF total = 0 THEN [label |-> "neutral", score |-> 0]
      ELSE LET mag == FDiv(IF pos < neg THEN neg - pos ELSE pos - neg, total)
               far == BigCmp(mag, SentimentThreshold) > 0
               rounded == FRound(mag, 1000)
           IN  IF pos > neg /\ far THEN [label |-> "positive", score |-> rounded]
               ELSE IF pos < neg /\ far THEN [label |-> "negative", score |-> -rounded]
               ELSE [label |-> "mixed", score |-> IF pos < neg THEN -rounded ELSE rounded]

detect_risk(text) == text.risks

\* metrics.get(key, 0) over a record that may lack the key
GetMetric(metrics, key) == IF key \in DOMAIN metrics THEN metrics[key] ELSE 0

\* score_engagement: the integer likes*1 + retweets*3 + reposts*3 +
\* replies*5, to which the float views*0.001 is added, rounded to 2
\* decimals; the result is in hundredths.
score_engagement(metrics) ==
  FRound(
    FAdd(FInt(GetMetric(metrics, "likes") + GetMetric(metrics, "retweets") * 3
                + GetMetric(metrics, "reposts") * 3 + GetMetric(metrics, "replies") * 5),
         FMul(FInt(GetMetric(metrics, "views")), ViewsWeight)),
    100)

\* score_reach: the multiplier, in tenths
score_reach(author_followers) ==
  IF author_followers >= 100000 THEN 30
  ELSE IF author_followers >= 10000 THEN 20
  ELSE IF author_followers >= 1000 THEN 15
  ELSE 10

\* score_mention: the mention's fields plus the scores.  engagement is the
\* float nearest to its hundredths / 100, reach the float of its tenths / 10,
\* and composite_score is round(engagement * reach, 2), in hundredths.
score_mention(mention) ==
  LET s == scorer_score_sentiment(mention.text)
      risks == detect_risk(mention.text)
      engagement == score_engagement(
        [likes |-> mention.likes, retweets |-> mention.retweets,
         replies |-> mention.replies])
      reach == score_reach(mention.author_followers)
  IN  [author |-> mention.author, timestamp |-> mention.timestamp,
       text |-> mention.text, likes |-> mention.likes,
       retweets |-> mention.retweets, replies |-> mention.replies,
       author_followers |-> mention.author_followers, url |-> mention.url,
       sentiment |-> s.label,
       sentiment_score |-> s.score,
       engagement_score |-> engagement,
       reach_multiplier |-> reach,
       composite_score |-> FRound(FMul(FDiv(engagement, 100), FDiv(reach, 10)), 100),
       risk_keywords |-> risks,
       risk_flag |-> Len(risks) > 0]

score_existing_post(post) ==
  LET s == scorer_score_sentiment(post.content)
      risks == detect_risk(post.content)
  IN  [post EXCEPT
         !.sentiment = IF post.sentiment = "" THEN s.label ELSE post.sentiment,
         !.engagement_score = score_engagement(post.metrics),
         !.risk_keywords = risks,
         !.has_flag = TRUE,
         !.risk_flag = IF post.has_flag THEN post.risk_flag ELSE Len(risks) > 0]

\* [score_mention(m) for m in data.get("mentions", [])]
ingest_raw(raw_file) == AsSeq([i \in 1..Len(raw_file) |-> score_mention(raw_file[i])])

\* posts.sort(key=engagement_score, reverse=True)
SortPosts(posts) ==
  LET sorted == StableSortDesc([i \in 1..Len(posts) |->
                   [key |-> posts[i].engagement_score, item |-> posts[i]]])
  IN  AsSeq([i \in 1..Len(sorted) |-> sorted[i].item])

SeqRange(s) == {s[i] : i \in 1..Len(s)}

\* the union of risk_keywords and topics over the flagged posts
RiskSignals(signals, posts) ==
  signals \cup UNION { SeqRange(posts[i].risk_keywords) \cup SeqRange(posts[i].topics) :
                       i \in {j \in 1..Len(posts) : posts[j].risk_flag} }

process_existing(file) ==
  LET scored_posts == SortPosts([i \in 1..Len(file.recentPosts) |->
                                   score_existing_post(file.recentPosts[i])])
  IN  [exists |-> TRUE, recentPosts |-> scored_posts,
       riskSignals |-> RiskSignals(file.riskSignals, scored_posts)]

\* the post merge_mentions makes of a scored mention
MentionPost(m) ==
  Post(m.author,
       IF m.timestamp # <<>> THEN Prefix10(m.timestamp) ELSE NoDate,
       m.text,
       PostMetrics(m.replies, m.retweets, m.likes, 0),
       m.sentiment, m.engagement_score, TRUE, m.risk_flag, m.risk_keywords,
       <<>>, "mention", m.url)

RECURSIVE AppendNewUrls(_, _)
AppendNewUrls(posts, new_posts) ==
  IF new_posts = <<>> THEN posts
  ELSE AppendNewUrls(
         IF \E i \in 1..Len(posts) : posts[i].url = Head(new_posts).url
         THEN posts ELSE Append(posts, Head(new_posts)),
         Tail(new_posts))

\* Mutant of merge_mentions: a mention whose url is already in the list is
\* not appended.
merge_mentions_Dedup(posts, scored_mentions) ==
  SortPosts(AppendNewUrls(posts,
    [i \in 1..Len(scored_mentions) |-> MentionPost(scored_mentions[i])]))

\* merge_mentions on the post list
merge_mentions(posts, scored_mentions) ==
  SortPosts(posts \o [i \in 1..Len(scored_mentions) |-> MentionPost(scored_mentions[i])])

(***************************************************************************)
(* scorer.py : main                                                        *)
(***************************************************************************)
RECURSIVE CountMentions(_)
CountMentions(files) ==
  IF files = <<>> THEN 0 ELSE Len(Head(files)) + CountMentions(Tail(files))

NoMerge == [merged |-> FALSE, before |-> <<>>, batch |-> <<>>]

\* A raw mention file appears in raw/ (its name sorts last).
add_raw_file ==
  /\ sproc.pc = "idle"
  /\ Len(rawDir) < MaxFiles
  /\ \E f \in RawFiles :
       /\ Len(pull.recentPosts) + CountMentions(rawDir) + Len(f) <= MaxPosts
       /\ rawDir' = Append(rawDir, f)
  /\ UNCHANGED <<pull, rawNow, sproc, slast, collectVars>>

\* The raw files are removed.
clear_raw ==
  /\ sproc.pc = "idle"
  /\ rawDir # <<>>
  /\ rawDir' = <<>>
  /\ rawNow' = FALSE
  /\ UNCHANGED <<pull, sproc, slast, collectVars>>

\* main: score the existing data, or start from the empty shape
scorer_load ==
  /\ sproc.pc = "idle"
  /\ Len(pull.recentPosts) + CountMentions(rawDir) <= MaxPosts
  /\ sproc' = [pc |-> "merging",
               data |-> IF pull.exists THEN process_existing(pull)
                        ELSE [exists |-> TRUE, recentPosts |-> <<>>, riskSignals |-> {}],
               idx |-> 1]
  /\ slast' = NoMerge
  /\ UNCHANGED <<pull, rawDir, rawNow, collectVars>>

\* main: one iteration of the loop over the raw files
scorer_merge ==
  /\ sproc.pc = "merging"
  /\ sproc.idx <= Len(rawDir)
  /\ LET scored == ingest_raw(rawDir[sproc.idx])
     IN  /\ sproc' = [sproc EXCEPT
                        !.data.recentPosts = merge_mentions(sproc.data.recentPosts, scored),
                        !.idx = sproc.idx + 1]
         /\ slast' = [merged |-> TRUE, before |-> sproc.data.recentPosts, batch |-> scored]
  /\ UNCHANGED <<pull, rawDir, rawNow, collectVars>>

\* main: write the output
scorer_write ==
  /\ sproc.pc = "merging"
  /\ sproc.idx > Len(rawDir)
  /\ pull' = sproc.data
  /\ sproc' = [pc |-> "idle", data |-> sproc.data, idx |-> 1]
  /\ UNCHANGED <<rawDir, rawNow, slast, collectVars>>

(***************************************************************************)
(* Initial states and specifications                                       *)
(***************************************************************************)
IdleScorer ==
  [pc |-> "idle", data |-> [exists |-> TRUE, recentPosts |-> <<>>, riskSignals |-> {}],
   idx |-> 1]

ScorerInit ==
  /\ pull = [exists |-> FALSE, recentPosts |-> <<>>, riskSignals |-> {}]
  /\ rawDir = <<>>
  /\ rawNow = FALSE
  /\ sproc = IdleScorer
  /\ slast = NoMerge

CollectIdle ==
  /\ dataFile = AbsentFile
  /\ today = 1
  /\ last = NoRun
  /\ work = 0
  /\ cproc = IdleCollect

\* data.json before the first run: absent, or a document holding only
\* pass-through fields written by another tool.
InitialFiles ==
  { AbsentFile,
    File("object", <<>>, <<>>, "profilesA", "missing", <<>>) }

Init ==
  /\ dataFile \in InitialFiles
  /\ today = 1
  /\ last = NoRun
  /\ work = 0
  /\ cproc = IdleCollect
  /\ ScorerInit

\* Every run costs at least 1, so the batches are drawn only while the
\* work counter is below its bound.
Next ==
  \/ (today < MaxDay /\ Tick)
  \/ Second
  \/ (work < MaxWork /\ \E tweets \in Batches(today) : main(tweets, MaxWork))
  \/ main_build

Spec == Init /\ [][Next]_vars

\* data.json as another tool left it: a document holding account profiles,
\* an aggregate, or both, and nothing else.
PassFiles ==
  { File("object", <<>>, <<>>, "profilesA", "missing", <<>>),
    File("object", <<>>, <<>>, "missing", "aggregateA", <<>>),
    File("object", <<>>, <<>>, "profilesA", "aggregateA", <<>>) }

InitPass ==
  /\ dataFile \in PassFiles
  /\ today = 1
  /\ last = NoRun
  /\ work = 0
  /\ cproc = IdleCollect
  /\ ScorerInit

NextPass ==
  \/ (today < MaxDay /\ Tick)
  \/ Second
  \/ (work < MaxPassWork /\ \E tweets \in Batches(today) : main(tweets, MaxPassWork))
  \/ main_build

SpecPass == InitPass /\ [][NextPass]_vars

\* data.json in every condition the loader can meet.
AnyFiles ==
  InitialFiles \cup
  { File("unparseable", <<>>, <<>>, "missing", "missing", <<>>),
    File("notobject", <<>>, <<>>, "missing", "missing", <<>>),
    File("badscores", <<>>, <<>>, "missing", "missing", <<>>) }

InitFile ==
  /\ dataFile \in AnyFiles
  /\ today = 1
  /\ last = NoRun
  /\ work = 0
  /\ cproc = IdleCollect
  /\ ScorerInit

NextFile ==
  \/ Second
  \/ (work < MaxWork /\ \E tweets \in Batches(today) : main(tweets, MaxWork))
  \/ main_build

SpecFile == InitFile /\ [][NextFile]_vars

\* The state after n daily runs from an absent file, the run of day k over
\* the batch <<t2>> of day k: each run adds the entry and the alert of its
\* day.  WarmStep(n) says that the run of day n leads from Warm(n - 1) to
\* Warm(n).
WarmBatch(d) == <<TweetById("t2", d)>>

WarmScored(d) == score_tweets(WarmBatch(d))

\* The entry of day 1; the entry of day d differs from it in its date only.
WarmEntry1 == ScoreEntry(WarmScored(1), compute_brand_score(WarmScored(1)), 1)

WarmEntry(d) == [WarmEntry1 EXCEPT !.date = d]

WarmAlert(d) == MakeAlert(WarmScored(d)[1], d)

Warm(n) ==
  IF n = 0 THEN AbsentFile
  ELSE File("object",
            Tail_n(AsSeq([d \in 1..n |-> WarmEntry(d)]), ScoreWindow),
            Tail_n(AsSeq([d \in 1..n |-> WarmAlert(d)]), AlertCap),
            "empty", "empty", TopMentions(WarmScored(n), n))

WarmStep(n) ==
  n > 0 =>
    build_dashboard_json(WarmScored(n), compute_brand_score(WarmScored(n)),
                         Warm(n - 1), n).dashboard = Warm(n)

WarmLast(n) ==
  IF n = 0 THEN NoRun
  ELSE LastRun("main", FALSE, WarmScored(n), compute_brand_score(WarmScored(n)),
               Warm(n - 1), n)

\* Each of the n runs, in a second of its own, left its dump in raw/; the
\* clock still shows the second of the last one.
InitLong ==
  /\ \E n \in 0..MaxWarm :
       /\ WarmStep(n)
       /\ dataFile = Warm(n)
       /\ today = Max(n, 1)
       /\ last = WarmLast(n)
       /\ rawDir = [k \in 1..n |-> RawDump]
       /\ rawNow = (n > 0)
  /\ work = 0
  /\ cproc = IdleCollect
  /\ pull = [exists |-> FALSE, recentPosts |-> <<>>, riskSignals |-> {}]
  /\ sproc = IdleScorer
  /\ slast = NoMerge

\* The long-run batches: the first k tweets of the day in the order t2, t4,
\* t3, t1, t5, for every k up to MaxLongBatch; the post keys of the first
\* three differ.
LongOrder == <<"t2", "t4", "t3", "t1", "t5">>

LongIds == { SubSeq(LongOrder, 1, k) : k \in 0..Min(MaxLongBatch, Len(LongOrder)) }

LongBatches(d) == { AsSeq([i \in 1..Len(b) |-> TweetById(b[i], d)]) : b \in LongIds }

NextLong ==
  \/ (today <= last.day /\ Tick)
  \/ Second
  \/ (work < MaxLongWork /\
        \E tweets \in LongBatches(today) : main(tweets, MaxLongWork))
  \/ main_build

SpecLong == InitLong /\ [][NextLong]_vars

\* The scoring functions over wider batches: every sequence of at most
\* MaxWide scored tweets with a sentiment and a reach, and every split of at
\* most MaxSplit tweets into positive, negative and neutral ones.
Scored(sentiment, reach) ==
  [id |-> "w", text |-> Text(0, 0, FALSE), username |-> "unknown", author_id |-> "a3",
   created_at |-> <<>>, sentiment |-> sentiment, confidence |-> 50, reach |-> reach,
   metrics |-> Metrics(0, 0, 0, 0), follower_count |-> 0]

WideReach == {0, 1, 3}

WideAtoms ==
  { Scored(s, r) : s \in {"positive", "negative", "neutral"}, r \in WideReach }

Repeat(x, n) == [i \in 1..n |-> x]

SplitBatch(p, n, u) ==
  Repeat(Scored("positive", 1), p) \o Repeat(Scored("negative", 1), n)
    \o Repeat(Scored("neutral", 1), u)

WideBatches ==
  SeqsUpTo(WideAtoms, MaxWide) \cup
  { SplitBatch(p, n, u) : p \in 0..MaxSplit, n \in 0..MaxSplit, u \in 0..MaxSplit }

\* Batches whose exact blend, or whose exact percentages, lie halfway
\* between two integers, so that the float arithmetic decides the rounding.
TieBatches ==
  { <<Scored("neutral", 10), Scored("negative", 110)>>,
    <<Scored("positive", 3), Scored("neutral", 100), Scored("neutral", 5)>>,
    SplitBatch(23, 17, 0),
    SplitBatch(0, 23, 17) }

InitScore ==
  /\ CollectIdle
  /\ ScorerInit

\* main from the scoring step on, over one wide batch
score_and_build ==
  /\ last.op = "none"
  /\ \E scored \in WideBatches \cup TieBatches :
       /\ Len(scored) <= MaxSplit \/ scored \in TieBatches
       /\ build_and_write("score", scored, compute_brand_score(scored))
  /\ UNCHANGED <<today, work, cproc, scorerVars>>

NextScore == score_and_build

SpecScore == InitScore /\ [][NextScore]_vars

InitPosts ==
  /\ CollectIdle
  /\ pull \in InitialPulls
  /\ rawDir = <<>>
  /\ rawNow = FALSE
  /\ sproc = IdleScorer
  /\ slast = NoMerge

NextPosts ==
  \/ add_raw_file
  \/ clear_raw
  \/ scorer_load
  \/ scorer_merge
  \/ scorer_write

SpecPosts == InitPosts /\ [][NextPosts]_vars

(***************************************************************************)
(* Properties                                                              *)
(***************************************************************************)
\* The last run called build_dashboard_json and wrote its result.
Wrote == last.op \in {"main", "score"} /\ ~last.aborted

DatesOf(scores) == {scores[i].date : i \in 1..Len(scores)}

EntriesOn(scores, d) == {i \in 1..Len(scores) : scores[i].date = d}

\* C1: the score series of data.json holds at most one entry per calendar
\* date, and after a merge it holds exactly one entry for the date of the
\* run, whose score, percentages and totalTweets are those of the batch of
\* that run, whatever an earlier run on the same date had stored.
C1_OneEntryPerDate ==
  /\ \A i, j \in 1..Len(dataFile.scores) :
       dataFile.scores[i].date = dataFile.scores[j].date => i = j
  /\ Wrote =>
       /\ Cardinality(EntriesOn(dataFile.scores, last.day)) = 1
       /\ \A i \in EntriesOn(dataFile.scores, last.day) :
            /\ dataFile.scores[i].score = last.brand_score
            /\ dataFile.scores[i].totalTweets = Len(last.batch)
            /\ dataFile.scores[i].positive =
                 Percent(CountSentiment(last.batch, "positive"), Len(last.batch))
            /\ dataFile.scores[i].negative =
                 Percent(CountSentiment(last.batch, "negative"), Len(last.batch))
            /\ dataFile.scores[i].neutral =
                 Percent(Len(last.batch) - CountSentiment(last.batch, "positive")
                           - CountSentiment(last.batch, "negative"), Len(last.batch))

\* C1 witness: a second merge on a date that already had an entry, with a
\* batch of another size and another score.
C1_Witness ==
  /\ Wrote
  /\ \E i \in EntriesOn(last.loaded.scores, last.day) :
       /\ last.loaded.scores[i].totalTweets # Len(last.batch)
       /\ last.loaded.scores[i].score # last.brand_score
       /\ last.loaded.scores[i].positive # dataFile.scores[Len(dataFile.scores)].positive

\* The author of an alert: the user name its post key starts with.
AlertAuthor(alert) == alert.post[1]

\* C2: the risk alerts of data.json never hold two entries with the same
\* (author, date) pair, and a merge leaves the alerts it loaded as they were:
\* an alert whose key is already in the list does not replace it.
C2_AlertKeyUnique ==
  /\ \A i, j \in 1..Len(dataFile.riskAlerts) :
       (/\ AlertAuthor(dataFile.riskAlerts[i]) = AlertAuthor(dataFile.riskAlerts[j])
        /\ dataFile.riskAlerts[i].date = dataFile.riskAlerts[j].date) => i = j
  /\ Wrote =>
       \A i \in 1..Len(last.loaded.riskAlerts) :
         i <= Len(dataFile.riskAlerts) => dataFile.riskAlerts[i] = last.loaded.riskAlerts[i]

\* C3: the risk alerts of data.json never exceed 50 entries, and a merge
\* keeps the last 50 of the alerts it loaded followed by the alerts it
\* appended: what is evicted is taken from the front of the list.
C3_AlertCap ==
  /\ Len(dataFile.riskAlerts) <= AlertCap
  /\ Wrote =>
       LET old == last.loaded.riskAlerts
           now == dataFile.riskAlerts
           fresh == {PostKey(last.batch[i]) :
                       i \in {k \in 1..Len(last.batch) : IsRisk(last.batch[k])}}
                    \ {old[i].post : i \in 1..Len(old)}
           evicted == Max(0, Len(old) + Cardinality(fresh) - AlertCap)
       IN  /\ Len(now) = Len(old) + Cardinality(fresh) - evicted
           /\ \A i \in (evicted + 1)..Len(old) : now[i - evicted] = old[i]
           /\ {now[i].post : i \in (Len(old) - evicted + 1)..Len(now)} = fresh

\* C3 witness: a merge of a batch of three tweets that loaded a full list
\* and appended three alerts, so that the three alerts at the front were
\* evicted.
C3_Witness ==
  /\ Wrote
  /\ work > 0
  /\ Len(last.batch) = 3
  /\ Len(last.loaded.riskAlerts) = AlertCap
  /\ Len(dataFile.riskAlerts) = AlertCap
  /\ dataFile.riskAlerts[1] = last.loaded.riskAlerts[4]
  /\ \A i \in (AlertCap - 2)..AlertCap :
       ~HasPost(last.loaded.riskAlerts, dataFile.riskAlerts[i].post)

\* The brand score blend as a fraction: 50 + 20 * (pos - neg) / total
\* + 30 * (pos_reach - neg_reach) / max(total_reach, 1), over total * reach.
BlendDen(scored) == Len(scored) * Max(TotalReach(scored), 1)

BlendNum(scored) ==
  50 * BlendDen(scored)
  + 20 * (CountSentiment(scored, "positive") - CountSentiment(scored, "negative"))
       * Max(TotalReach(scored), 1)
  + 30 * (ReachOf(scored, "positive") - ReachOf(scored, "negative")) * Len(scored)

\* C4: the brand score is 50 for the empty batch, and for a non-empty batch
\* an integer from 0 to 100 that is a nearest integer of
\* 0.4 * count_score + 0.6 * reach_score, the reach ratio being taken over a
\* denominator of 1 when the total reach is 0.
C4_BrandScore ==
  last.op = "score" =>
    /\ last.brand_score \in 0..100
    /\ last.batch = <<>> => last.brand_score = 50
    /\ last.batch # <<>> =>
         LET diff == 2 * (last.brand_score * BlendDen(last.batch) - BlendNum(last.batch))
         IN  /\ diff <= BlendDen(last.batch)
             /\ -diff <= BlendDen(last.batch)

\* C4 witness: a batch of total reach 0 with more negative than positive
\* tweets was scored, below 50.
C4_Witness ==
  /\ last.op = "score"
  /\ Len(last.batch) = 3
  /\ TotalReach(last.batch) = 0
  /\ last.brand_score = 43

\* the entry the last run stored
LastEntry == dataFile.scores[Len(dataFile.scores)]

PercentSum(e) == e.positive + e.negative + e.neutral

\* C5 as stated: the three percentages of an entry sum to 100 when the
\* batch is not empty, and are all 0 when it is.
C5_SumIs100 ==
  (last.op = "score" /\ ~last.aborted) =>
    /\ Len(last.batch) > 0 => PercentSum(LastEntry) = 100
    /\ Len(last.batch) = 0 =>
         (LastEntry.positive = 0 /\ LastEntry.negative = 0 /\ LastEntry.neutral = 0)

\* C5 amended: the three percentages of an entry are integers from 0 to 100
\* whose sum is 99, 100 or 101 when the batch is not empty, and are all 0
\* when it is.
C5_SumNear100 ==
  (last.op = "score" /\ ~last.aborted) =>
    /\ {LastEntry.positive, LastEntry.negative, LastEntry.neutral} \subseteq 0..100
    /\ Len(last.batch) > 0 => PercentSum(LastEntry) \in {99, 100, 101}
    /\ Len(last.batch) = 0 =>
         (LastEntry.positive = 0 /\ LastEntry.negative = 0 /\ LastEntry.neutral = 0)

\* C5 witness: an entry of a non-empty batch whose percentages sum to 101.
C5_Witness ==
  /\ last.op = "score"
  /\ ~last.aborted
  /\ Len(last.batch) = 8
  /\ PercentSum(LastEntry) = 101

\* C6: whatever data.json holds, a run that reaches build_dashboard_json
\* does not abort and writes a dashboard document.
C6_NeverAborts ==
  last.op \in {"main", "build"} => (~last.aborted /\ dataFile.kind = "object")

\* C7: after a run of main over an empty batch, compute_brand_score of that
\* batch is 50 and data.json is as the run found it: the score series has
\* no entry added, replaced or evicted, and the pass-through fields have the
\* values they had.
C7_EmptyBatch ==
  (last.op \in {"main", "skip"} /\ last.batch = <<>>) =>
    /\ compute_brand_score(last.batch) = NeutralDefault
    /\ dataFile.kind = last.loaded.kind
    /\ dataFile.scores = last.loaded.scores
    /\ dataFile.accountProfiles = last.loaded.accountProfiles
    /\ dataFile.aggregate = last.loaded.aggregate
    /\ dataFile = last.loaded

\* C7 witness: main ran over an empty batch on a date for which data.json
\* held an entry of an earlier run, next to pass-through fields.
C7_Witness ==
  /\ last.op = "skip"
  /\ last.batch = <<>>
  /\ Len(dataFile.scores) = 1
  /\ dataFile.scores[1].date = last.day
  /\ dataFile.scores[1].totalTweets > 0
  /\ dataFile.accountProfiles = "profilesA"
  /\ dataFile.aggregate = "aggregateA"

\* A merge over a readable document.
MergedDocument == Wrote /\ last.op = "main" /\ last.loaded.kind = "object"

\* C8 as stated: a merge over a readable document writes accountProfiles and
\* aggregate as they were in the document it loaded, a field the document
\* lacks being lacking in what is written.
C8_AsLoaded ==
  MergedDocument =>
    /\ dataFile.accountProfiles = last.loaded.accountProfiles
    /\ dataFile.aggregate = last.loaded.aggregate

\* C8 amended: a merge over a readable document writes each of
\* accountProfiles and aggregate with the value it had in the document it
\* loaded when the document held the field, and as the empty object when the
\* document lacked it.
C8_PassThrough ==
  MergedDocument =>
    /\ last.loaded.accountProfiles # "missing" =>
         dataFile.accountProfiles = last.loaded.accountProfiles
    /\ last.loaded.accountProfiles = "missing" => dataFile.accountProfiles = "empty"
    /\ last.loaded.aggregate # "missing" =>
         dataFile.aggregate = last.loaded.aggregate
    /\ last.loaded.aggregate = "missing" => dataFile.aggregate = "empty"

\* C8 witness: a merge over a document that holds an aggregate and lacks the
\* account profiles, after an earlier merge over the document as another
\* tool left it.
C8_Witness ==
  /\ MergedDocument
  /\ last.batch # <<>>
  /\ last.loaded.scores # <<>>
  /\ last.loaded.aggregate = "aggregateA"
  /\ dataFile.aggregate = "aggregateA"
  /\ last.loaded.accountProfiles = "empty"
  /\ dataFile.accountProfiles = "empty"

\* C9: a merge stores the loaded series without the entries dated today,
\* followed by the new entry, cut to its last 90 entries: the series never
\* exceeds 90 entries, today's entry is the last one, and with runs on
\* non-decreasing dates the entries dropped are those of the oldest dates.
C9_ScoreWindow ==
  /\ Len(dataFile.scores) <= ScoreWindow
  /\ \A i \in 1..(Len(dataFile.scores) - 1) :
       dataFile.scores[i].date < dataFile.scores[i + 1].date
  /\ Wrote =>
       LET old == last.loaded.scores
           now == dataFile.scores
           NotToday(e) == e.date # last.day
           kept == SelectSeq(old, NotToday)
           dropped == Max(0, Len(kept) + 1 - ScoreWindow)
       IN  /\ now[Len(now)].date = last.day
           /\ Len(now) = Len(kept) + 1 - dropped
           /\ \A i \in 1..dropped :
                /\ kept[i].date \notin DatesOf(now)
                /\ \A j \in 1..Len(now) : kept[i].date < now[j].date
           /\ \A i \in (dropped + 1)..Len(kept) : now[i - dropped] = kept[i]

\* C9 witness: a merge on a new date over a full series, which dropped the
\* entry of the oldest date.
C9_Witness ==
  /\ Wrote
  /\ work > 0
  /\ Len(last.loaded.scores) = ScoreWindow
  /\ last.day \notin DatesOf(last.loaded.scores)
  /\ Len(dataFile.scores) = ScoreWindow
  /\ last.loaded.scores[1].date \notin DatesOf(dataFile.scores)
  /\ dataFile.scores[1] = last.loaded.scores[2]

WithScore(posts, e) ==
  LET Is(p) == p.engagement_score = e
  IN  SelectSeq(posts, Is)

\* C10: after a merge_mentions call the post list is in descending order of
\* engagement score, it is one post longer per scored mention, and for each
\* engagement score its posts are the posts of that score of the list
\* before, in their order, followed by the new posts of that score: nothing
\* is replaced or removed, and posts of equal score keep their order.
C10_AccumulateAndSort ==
  slast.merged =>
    LET after == sproc.data.recentPosts
        joined == slast.before \o
                  AsSeq([i \in 1..Len(slast.batch) |-> MentionPost(slast.batch[i])])
    IN  /\ \A i, j \in 1..Len(after) :
             i < j => after[i].engagement_score >= after[j].engagement_score
        /\ Len(after) = Len(slast.before) + Len(slast.batch)
        /\ \A k \in 1..Len(joined) :
             WithScore(after, joined[k].engagement_score)
               = WithScore(joined, joined[k].engagement_score)

\* C10 witness: the batch merged is one whose posts are in the list already,
\* so the list holds the same post twice, and a new post has the engagement
\* score of an older, different post and stands after it.
C10_Witness ==
  /\ slast.merged
  /\ Len(slast.batch) > 0
  /\ \E i, j \in 1..Len(sproc.data.recentPosts) :
       /\ i < j
       /\ sproc.data.recentPosts[i] = sproc.data.recentPosts[j]
       /\ sproc.data.recentPosts[i].source = "mention"
       /\ \E k \in 1..Len(slast.before) : slast.before[k] = sproc.data.recentPosts[i]
  /\ \E i, j \in 1..Len(sproc.data.recentPosts) :
       /\ i < j
       /\ sproc.data.recentPosts[i].engagement_score
            = sproc.data.recentPosts[j].engagement_score
       /\ sproc.data.recentPosts[i].source = "pull"
       /\ sproc.data.recentPosts[j].source = "mention"

\* The records of a post list whose risk keyword list is non-empty while
\* their risk flag is false.
Unflagged(posts) ==
  {i \in 1..Len(posts) : posts[i].risk_keywords # <<>> /\ ~posts[i].risk_flag}

\* C11: every scored record has its risk flag set when its risk keyword list
\* is non-empty: the mentions scored by score_mention, the posts of the list
\* the run is building (scored by score_existing_post or made from scored
\* mentions), and the posts of the file the run wrote, which later runs
\* score again.
C11_KeywordsImplyFlag ==
  /\ \A i \in 1..Len(slast.batch) :
       slast.batch[i].risk_keywords # <<>> => slast.batch[i].risk_flag
  /\ Unflagged(sproc.data.recentPosts) = {}
  /\ Unflagged(pull.recentPosts) = {}

====
